---- MODULE Spec2Model ----
(***************************************************************************)
(* Model of the bin2hex record encoders: IntelHexConverter (Intel HEX) and *)
(* SRecordConverter (Motorola S-Record), with the BinaryUtils hex helpers. *)
(*                                                                         *)
(* A text line is a sequence of one-character strings, rendered exactly as *)
(* the code renders it; the properties below parse the lines back.         *)
(***************************************************************************)
EXTENDS Integers, Sequences, FiniteSets, TLC

(***************************************************************************)
(* Bounds of the model.                                                    *)
(***************************************************************************)
\* Longest buffer built from every combination of SmallBytes.
MaxLen == 1
\* Length of the long pattern buffer (longer than any one-byte length field).
LongLen == 258
\* Length of the long header text (its S0 byte count needs more than 8 bits).
LongHeaderLen == 253
\* Lines an Intel HEX run may write before the model stops following it.
MaxLinesHex == 36
\* Lines an S-Record run may write before the model stops following it.
MaxLinesSRec == 12
\* Data records without payload a run may write before the model stops
\* following it (a run with a zero line width never leaves its loop).
MaxStall == 3

(***************************************************************************)
(* Fixed-width unsigned arithmetic.                                        *)
(***************************************************************************)
u8(x) == x % 256

u16(x) == x % 65536

\* A uint32_t is kept as its two 16-bit halves, so that every value of the
\* type is representable: U32(hi, lo) stands for hi * 2^16 + lo.
U32(hi, lo) == [hi |-> hi, lo |-> lo]

\* Conversion of a small non-negative integer to uint32_t.
ToU32(n) == U32((n \div 65536) % 65536, n % 65536)

\* As AddU32, but in 16-bit arithmetic: the carry into the upper half is lost.
AddU32_NoCarry(a, n) == U32(a.hi, (a.lo + n) % 65536)

\* a + n in uint32_t arithmetic (wraps at 2^32), n a small non-negative integer.
AddU32(a, n) ==
    U32((a.hi + ((a.lo + n) \div 65536)) % 65536, (a.lo + n) % 65536)

\* static_cast<uint8_t>(a >> (8 * k)), k in 0..3
ByteOf(a, k) ==
    CASE k = 0 -> a.lo % 256
      [] k = 1 -> a.lo \div 256
      [] k = 2 -> a.hi % 256
      [] k = 3 -> a.hi \div 256

Min(a, b) == IF a < b THEN a ELSE b

Max(a, b) == IF a > b THEN a ELSE b

(***************************************************************************)
(* BinaryUtils                                                             *)
(***************************************************************************)
HexDigits == <<"0", "1", "2", "3", "4", "5", "6", "7",
               "8", "9", "A", "B", "C", "D", "E", "F">>

nibble_to_hex(nibble) == HexDigits[nibble + 1]

byte_to_hex(value) ==
    <<nibble_to_hex((value \div 16) % 16), nibble_to_hex(value % 16)>>

\* The loop "for (uint8_t byte : data) record += byte_to_hex(byte)".
data_to_hex(data) ==
    [i \in 1..(2 * Len(data)) |->
        byte_to_hex(data[(i + 1) \div 2])[2 - (i % 2)]]

\* The loop "for (uint8_t byte : data) sum += byte".
RECURSIVE SumRange(_, _, _)
SumRange(data, first, last) ==
    IF first > last THEN 0
    ELSE IF first = last THEN data[first]
    ELSE LET mid == (first + last) \div 2
         IN  SumRange(data, first, mid) + SumRange(data, mid + 1, last)

SumBytes(data) == SumRange(data, 1, Len(data))

\* std::vector<uint8_t>(begin + offset, begin + offset + n)
Slice(data, offset, n) == [i \in 1..n |-> data[offset + i]]

(***************************************************************************)
(* IntelHexConverter                                                       *)
(***************************************************************************)
DATA_RECORD == 0

EOF_RECORD == 1

EXTENDED_LINEAR_ADDRESS == 4

\* Sentinel of extended_address (0xFFFFFFFF): no record emitted yet.
ExtendedUnset == U32(65535, 65535)

Hex_calculate_checksum_NoType(byte_count, address, record_type, data) ==
    u8(256 - ((byte_count + ((address \div 256) % 256) + (address % 256)
                 + SumBytes(data)) % 256))

Hex_calculate_checksum(byte_count, address, record_type, data) ==
    u8(256 - ((byte_count + ((address \div 256) % 256) + (address % 256)
                 + record_type + SumBytes(data)) % 256))

Hex_generate_record(byte_count, address, record_type, data) ==
    <<":">> \o byte_to_hex(byte_count)
            \o byte_to_hex(u8(address \div 256))
            \o byte_to_hex(u8(address % 256))
            \o byte_to_hex(record_type)
            \o data_to_hex(data)
            \o byte_to_hex(Hex_calculate_checksum(byte_count, address,
                                                  record_type, data))

generate_extended_address_record_LowHalf(address) ==
    LET extended_addr == address.lo
    IN  Hex_generate_record(2, 0, EXTENDED_LINEAR_ADDRESS,
                            <<u8(extended_addr \div 256), u8(extended_addr % 256)>>)

generate_extended_address_record(address) ==
    LET extended_addr == u16(address.hi)
    IN  Hex_generate_record(2, 0, EXTENDED_LINEAR_ADDRESS,
                            <<u8(extended_addr \div 256), u8(extended_addr % 256)>>)

\* Line 29: whether an extended address record precedes the next data record.
Hex_need_extended_OnlyNonZero(use_ext, cur, ext) ==
    use_ext /\ U32(0, cur.hi) # ext /\ cur.hi # 0

Hex_need_extended(use_ext, cur, ext) ==
    use_ext /\ U32(0, cur.hi) # ext

\* Lines 36-41: payload length of the next data record.
Hex_bytes_this_line_NoBoundary(bpl, size, offset, cur) ==
    Min(bpl, size - offset)

Hex_bytes_this_line(bpl, size, offset, cur) ==
    LET bytes_remaining == size - offset
        max_bytes_to_boundary == 65536 - cur.lo
    IN  Min(Min(bpl, bytes_remaining), max_bytes_to_boundary)

(***************************************************************************)
(* SRecordConverter                                                        *)
(***************************************************************************)
S0_HEADER == 0

S1_DATA_16 == 1

S2_DATA_24 == 2

S3_DATA_32 == 3

S5_COUNT_16 == 5

S6_COUNT_24 == 6

S7_END_32 == 7

S8_END_24 == 8

S9_END_16 == 9

DecDigits == <<"0", "1", "2", "3", "4", "5", "6", "7", "8", "9">>

\* std::to_string(static_cast<int>(type)), type in 0..9
to_string(type) == <<DecDigits[type + 1]>>

get_address_bytes(type) ==
    CASE type \in {S0_HEADER, S1_DATA_16, S5_COUNT_16, S9_END_16} -> 2
      [] type \in {S2_DATA_24, S6_COUNT_24, S8_END_24} -> 3
      [] type \in {S3_DATA_32, S7_END_32} -> 4
      [] OTHER -> 2

get_data_record_type(address_size) ==
    CASE address_size = 16 -> S1_DATA_16
      [] address_size = 24 -> S2_DATA_24
      [] address_size = 32 -> S3_DATA_32
      [] OTHER -> S3_DATA_32

get_end_record_type_DataFor16(address_size) ==
    CASE address_size = 16 -> S1_DATA_16
      [] address_size = 24 -> S8_END_24
      [] address_size = 32 -> S7_END_32
      [] OTHER -> S7_END_32

get_end_record_type(address_size) ==
    CASE address_size = 16 -> S9_END_16
      [] address_size = 24 -> S8_END_24
      [] address_size = 32 -> S7_END_32
      [] OTHER -> S7_END_32

\* Line 25, negated.
valid_address_size_Any(address_size) == TRUE

valid_address_size(address_size) ==
    ~(address_size # 16 /\ address_size # 24 /\ address_size # 32)

\* Lines 109-118: the address bytes in the order they are appended.
SRec_address_bytes(address, addr_bytes) ==
    (IF addr_bytes >= 2
        THEN <<ByteOf(address, 1), ByteOf(address, 0)>> ELSE <<>>)
    \o (IF addr_bytes >= 3 THEN <<ByteOf(address, 2)>> ELSE <<>>)
    \o (IF addr_bytes >= 4 THEN <<ByteOf(address, 3)>> ELSE <<>>)

SRec_calculate_checksum_TwosComplement(byte_count, address, address_bytes, data) ==
    u8(256 - ((byte_count
              + (IF address_bytes >= 2
                    THEN ByteOf(address, 1) + ByteOf(address, 0) ELSE 0)
              + (IF address_bytes >= 3 THEN ByteOf(address, 2) ELSE 0)
              + (IF address_bytes >= 4 THEN ByteOf(address, 3) ELSE 0)
              + SumBytes(data)) % 256))

SRec_calculate_checksum(byte_count, address, address_bytes, data) ==
    LET sum == (byte_count
              + (IF address_bytes >= 2
                    THEN ByteOf(address, 1) + ByteOf(address, 0) ELSE 0)
              + (IF address_bytes >= 3 THEN ByteOf(address, 2) ELSE 0)
              + (IF address_bytes >= 4 THEN ByteOf(address, 3) ELSE 0)
              + SumBytes(data))
    IN  255 - (sum % 256)

SRec_generate_record(type, address, data) ==
    LET addr_bytes == get_address_bytes(type)
        byte_count == u8(addr_bytes + Len(data) + 1)
    IN  <<"S">> \o to_string(type)
                \o byte_to_hex(byte_count)
                \o data_to_hex(SRec_address_bytes(address, addr_bytes))
                \o data_to_hex(data)
                \o byte_to_hex(SRec_calculate_checksum(byte_count, address,
                                                       addr_bytes, data))

\* Lines 48-54: payload length of the next data record.
SRec_bytes_this_line(bpl, size, offset, data_type) ==
    LET bytes_remaining == size - offset
        max_data_bytes == 255 - get_address_bytes(data_type) - 1
    IN  Min(Min(bpl, bytes_remaining), max_data_bytes)

\* Line 73: whether the S5 count record is written.
SRec_count_emitted_NonZero(record_count) ==
    record_count >= 1 /\ record_count <= 65535

SRec_count_emitted_Below(record_count) == record_count < 65535

SRec_count_emitted(record_count) == record_count <= 65535

\* Lines 73-80: the lines the count step writes.
SRec_count_records(record_count) ==
    IF SRec_count_emitted(record_count)
       THEN <<SRec_generate_record(S5_COUNT_16, ToU32(record_count),
                  <<u8(record_count \div 256), u8(record_count % 256)>>)>>
       ELSE <<>>

(***************************************************************************)
(* Inputs of the model.                                                    *)
(***************************************************************************)
SmallBytes == {1, 255}

SmallBuffers ==
    UNION {[1..n -> SmallBytes] : n \in 0..MaxLen}

\* The four-byte buffer 01 02 03 04.
Buffer4 == <<1, 2, 3, 4>>

\* A 32-byte buffer, each byte different.
Buffer32 == [i \in 1..32 |-> (7 * i + 3) % 256]

\* A buffer longer than 255 bytes.
LongBuffer == [i \in 1..LongLen |-> (5 * i + 1) % 256]

Buffers == SmallBuffers \cup {Buffer4, Buffer32, LongBuffer}

\* 0x00000000, 0x0000FFF0, 0x12345678, 0xFFFFFFFF
StartAddresses == {U32(0, 0), U32(0, 65520), U32(4660, 22136), U32(65535, 65535)}

\* Arguments given to the constructors and to set_bytes_per_line.
CtorBytesPerLine == {0, 4, 300}

SetBytesPerLine == {0, 300}

\* Output paths: one that can be opened for writing, one that cannot.
OutputFiles == {"out.txt", "/nodir/out.txt"}

AddressSizes == {16, 24, 32, 20}

\* Header texts, as the bytes of their characters: "", "HDR", a long one.
LongHeader == [i \in 1..LongHeaderLen |-> 65 + (i % 26)]

Headers == {<<>>, <<72, 68, 82>>, LongHeader}

(***************************************************************************)
(* State.                                                                  *)
(***************************************************************************)
VARIABLES
    conv,                  \* class of the converter object
    bytes_per_line_,       \* its member bytes_per_line_
    last_error_,           \* its member last_error_
    pc,                    \* position of the running call: "idle" when none,
                           \* "hex_loop" / "srec_loop" at the loop test,
                           \* "return" at the return statement
    binary_data, start_address, output_file,            \* arguments
    use_extended_address,                               \* argument (Intel HEX)
    address_size, header,                               \* arguments (S-Record)
    current_address, extended_address, data_offset, record_count,  \* locals
    out,                   \* lines written through the local std::ofstream out
    result                 \* value the call returns ("none" while it runs)

vars == <<conv, bytes_per_line_, last_error_, pc, binary_data, start_address,
          output_file, use_extended_address, address_size, header, current_address,
          extended_address, data_offset, record_count, out, result>>

args == <<binary_data, start_address, output_file, use_extended_address,
          address_size, header>>

locals == <<current_address, extended_address, data_offset, record_count>>

\* std::ofstream out(output_file); out.is_open()
is_open(file) == file = "out.txt"

\* Constructors: the line width is clamped.
IntelHexConverter_ctor(bytes_per_line) == Max(1, Min(255, bytes_per_line))

SRecordConverter_ctor(bytes_per_line) == Max(1, Min(252, bytes_per_line))

Init ==
    /\ conv \in {"IntelHexConverter", "SRecordConverter"}
    /\ \E n \in CtorBytesPerLine :
          bytes_per_line_ = IF conv = "IntelHexConverter"
                               THEN IntelHexConverter_ctor(n)
                               ELSE SRecordConverter_ctor(n)
    /\ last_error_ = ""
    /\ pc = "idle"
    /\ binary_data = <<>>
    /\ start_address = U32(0, 0)
    /\ output_file = ""
    /\ use_extended_address = TRUE
    /\ address_size = 32
    /\ header = <<>>
    /\ current_address = U32(0, 0)
    /\ extended_address = ExtendedUnset
    /\ data_offset = 0
    /\ record_count = 0
    /\ out = <<>>
    /\ result = "none"

(***************************************************************************)
(* IntelHexConverter: operations.                                          *)
(***************************************************************************)
Hex_set_bytes_per_line(n) ==
    /\ conv = "IntelHexConverter"
    /\ pc = "idle"
    /\ bytes_per_line_' = n
    /\ UNCHANGED <<conv, last_error_, pc, args, locals, out, result>>

\* Entry of convert_to_hex up to the loop: open the file, set the locals.
convert_to_hex(data, addr, file, use_ext) ==
    /\ conv = "IntelHexConverter"
    /\ pc = "idle"
    /\ binary_data' = data
    /\ start_address' = addr
    /\ output_file' = file
    /\ use_extended_address' = use_ext
    /\ out' = <<>>
    /\ IF ~is_open(file)
          THEN /\ last_error_' = "Failed to open output file: " \o file
               /\ result' = "false"
               /\ pc' = "return"
               /\ UNCHANGED locals
          ELSE /\ current_address' = addr
               /\ extended_address' = ExtendedUnset
               /\ data_offset' = 0
               /\ pc' = "hex_loop"
               /\ result' = "none"
               /\ UNCHANGED <<last_error_, record_count>>
    /\ UNCHANGED <<conv, bytes_per_line_, address_size, header>>

\* One iteration of the while loop.
Hex_loop_iteration ==
    /\ pc = "hex_loop"
    /\ data_offset < Len(binary_data)
    /\ LET need == Hex_need_extended(use_extended_address, current_address,
                                     extended_address)
           bytes_this_line == Hex_bytes_this_line(bytes_per_line_,
                                  Len(binary_data), data_offset, current_address)
           line_data == Slice(binary_data, data_offset, bytes_this_line)
           record == Hex_generate_record(u8(bytes_this_line), current_address.lo,
                                         DATA_RECORD, line_data)
       IN  /\ Len(out) < MaxLinesHex
           /\ bytes_this_line > 0 \/ Len(out) < MaxStall
           /\ extended_address' = IF need THEN U32(0, current_address.hi)
                                          ELSE extended_address
           /\ out' = out
                     \o (IF need
                            THEN <<generate_extended_address_record(current_address)>>
                            ELSE <<>>)
                     \o <<record>>
           /\ data_offset' = data_offset + bytes_this_line
           /\ current_address' = AddU32(current_address, bytes_this_line)
    /\ UNCHANGED <<conv, bytes_per_line_, last_error_, pc, args, record_count, result>>

\* After the loop: the end-of-file record, close, return true.
Hex_eof ==
    /\ pc = "hex_loop"
    /\ ~(data_offset < Len(binary_data))
    /\ out' = Append(out, Hex_generate_record(0, 0, EOF_RECORD, <<>>))
    /\ result' = "true"
    /\ pc' = "return"
    /\ UNCHANGED <<conv, bytes_per_line_, last_error_, args, locals>>

\* The return statement: the arguments, the locals and the stream go out of
\* scope; the object keeps bytes_per_line_ and last_error_.
Hex_return ==
    /\ conv = "IntelHexConverter"
    /\ pc = "return"
    /\ pc' = "idle"
    /\ binary_data' = <<>>
    /\ start_address' = U32(0, 0)
    /\ output_file' = ""
    /\ use_extended_address' = TRUE
    /\ current_address' = U32(0, 0)
    /\ extended_address' = ExtendedUnset
    /\ data_offset' = 0
    /\ out' = <<>>
    /\ UNCHANGED <<conv, bytes_per_line_, last_error_, address_size, header,
                   record_count, result>>

(***************************************************************************)
(* SRecordConverter: operations.                                           *)
(***************************************************************************)
SRec_set_bytes_per_line(n) ==
    /\ conv = "SRecordConverter"
    /\ pc = "idle"
    /\ bytes_per_line_' = n
    /\ UNCHANGED <<conv, last_error_, pc, args, locals, out, result>>

\* Entry of convert_to_srec up to the loop: open the file, validate the
\* address size, write the header record, set the locals.
convert_to_srec(data, addr, file, size, hdr) ==
    /\ conv = "SRecordConverter"
    /\ pc = "idle"
    /\ binary_data' = data
    /\ start_address' = addr
    /\ output_file' = file
    /\ address_size' = size
    /\ header' = hdr
    /\ IF ~is_open(file)
          THEN /\ last_error_' = "Failed to open output file: " \o file
               /\ result' = "false"
               /\ pc' = "return"
               /\ out' = <<>>
               /\ UNCHANGED locals
          ELSE IF ~valid_address_size(size)
          THEN /\ last_error_' = "Invalid address size. Must be 16, 24, or 32 bits."
               /\ result' = "false"
               /\ pc' = "return"
               /\ out' = <<>>
               /\ UNCHANGED locals
          ELSE /\ out' = IF hdr # <<>>
                            THEN <<SRec_generate_record(S0_HEADER, U32(0, 0), hdr)>>
                            ELSE <<>>
               /\ current_address' = addr
               /\ data_offset' = 0
               /\ record_count' = 0
               /\ pc' = "srec_loop"
               /\ result' = "none"
               /\ UNCHANGED <<last_error_, extended_address>>
    /\ UNCHANGED <<conv, bytes_per_line_, use_extended_address>>

\* One iteration of the while loop.
SRec_loop_iteration ==
    /\ pc = "srec_loop"
    /\ data_offset < Len(binary_data)
    /\ LET data_type == get_data_record_type(address_size)
           bytes_this_line == SRec_bytes_this_line(bytes_per_line_,
                                  Len(binary_data), data_offset, data_type)
           line_data == Slice(binary_data, data_offset, bytes_this_line)
       IN  /\ Len(out) < MaxLinesSRec
           /\ bytes_this_line > 0 \/ record_count < MaxStall
           /\ out' = Append(out, SRec_generate_record(data_type, current_address,
                                                      line_data))
           /\ data_offset' = data_offset + bytes_this_line
           /\ current_address' = AddU32(current_address, bytes_this_line)
           /\ record_count' = record_count + 1
    /\ UNCHANGED <<conv, bytes_per_line_, last_error_, pc, args, extended_address,
                   result>>

\* After the loop: the count record, the end record, close, return true.
SRec_end ==
    /\ pc = "srec_loop"
    /\ ~(data_offset < Len(binary_data))
    /\ out' = out
              \o SRec_count_records(record_count)
              \o <<SRec_generate_record(get_end_record_type(address_size),
                                        start_address, <<>>)>>
    /\ result' = "true"
    /\ pc' = "return"
    /\ UNCHANGED <<conv, bytes_per_line_, last_error_, args, locals>>

\* The return statement: the arguments, the locals and the stream go out of
\* scope; the object keeps bytes_per_line_ and last_error_.
SRec_return ==
    /\ conv = "SRecordConverter"
    /\ pc = "return"
    /\ pc' = "idle"
    /\ binary_data' = <<>>
    /\ start_address' = U32(0, 0)
    /\ output_file' = ""
    /\ address_size' = 32
    /\ header' = <<>>
    /\ current_address' = U32(0, 0)
    /\ data_offset' = 0
    /\ record_count' = 0
    /\ out' = <<>>
    /\ UNCHANGED <<conv, bytes_per_line_, last_error_, use_extended_address,
                   extended_address, result>>

\* Steps of an IntelHexConverter object and of its caller.
NextHex ==
    \/ \E n \in SetBytesPerLine : Hex_set_bytes_per_line(n)
    \/ \E data \in Buffers, addr \in StartAddresses, f \in OutputFiles,
          use_ext \in BOOLEAN : convert_to_hex(data, addr, f, use_ext)
    \/ Hex_loop_iteration
    \/ Hex_eof
    \/ Hex_return

\* Steps of an SRecordConverter object and of its caller.
NextSRec ==
    \/ \E n \in SetBytesPerLine : SRec_set_bytes_per_line(n)
    \/ \E data \in Buffers, addr \in StartAddresses, f \in OutputFiles,
          size \in AddressSizes, hdr \in Headers :
          convert_to_srec(data, addr, f, size, hdr)
    \/ SRec_loop_iteration
    \/ SRec_end
    \/ SRec_return

Next == NextHex \/ NextSRec

\* Either converter.
Spec == Init /\ [][Next]_vars

\* An IntelHexConverter alone.
InitHex == Init /\ conv = "IntelHexConverter"

SpecHex == InitHex /\ [][NextHex]_vars

\* An SRecordConverter alone.
InitSRec == Init /\ conv = "SRecordConverter"

SpecSRec == InitSRec /\ [][NextSRec]_vars

(***************************************************************************)
(* The count step of convert_to_srec on its own: the state after a loop    *)
(* that wrote record_count data records, of which only the count is kept,  *)
(* so that counts beyond 0xFFFF are covered; out holds the lines written   *)
(* after the loop.                                                         *)
(***************************************************************************)
\* Record counts around 0, a byte, and the 16-bit limit.
CountValues == {0, 1, 255, 256, 257, 4660, 65534, 65535, 65536, 65537, 70000}

InitCount ==
    /\ conv = "SRecordConverter"
    /\ bytes_per_line_ = 1
    /\ last_error_ = ""
    /\ pc = "srec_after_loop"
    /\ binary_data = <<>>
    /\ start_address = U32(0, 0)
    /\ output_file = "out.txt"
    /\ use_extended_address = TRUE
    /\ address_size = 32
    /\ header = <<>>
    /\ current_address = U32(0, 0)
    /\ extended_address = ExtendedUnset
    /\ data_offset = 0
    /\ record_count \in CountValues
    /\ out = <<>>
    /\ result = "none"

SRec_count_only ==
    /\ pc = "srec_after_loop"
    /\ out' = SRec_count_records(record_count)
    /\ pc' = "srec_after_count"
    /\ UNCHANGED <<conv, bytes_per_line_, last_error_, args, locals, result>>

InitSRecCount == InitSRec \/ InitCount

NextSRecCount == NextSRec \/ SRec_count_only

\* An SRecordConverter, and the count step on the counts of CountValues.
SpecSRecCount == InitSRecCount /\ [][NextSRecCount]_vars

TypeOK == pc \in {"idle", "hex_loop", "srec_loop", "return"}

(***************************************************************************)
(* Reading the emitted text back.                                          *)
(***************************************************************************)
\* Value of a hex digit character.
HexVal(c) ==
    CASE c = "0" -> 0 [] c = "1" -> 1 [] c = "2" -> 2 [] c = "3" -> 3
      [] c = "4" -> 4 [] c = "5" -> 5 [] c = "6" -> 6 [] c = "7" -> 7
      [] c = "8" -> 8 [] c = "9" -> 9 [] c = "A" -> 10 [] c = "B" -> 11
      [] c = "C" -> 12 [] c = "D" -> 13 [] c = "E" -> 14 [] c = "F" -> 15

\* The byte written as the two characters line[i], line[i + 1].
ParseByte(line, i) == 16 * HexVal(line[i]) + HexVal(line[i + 1])

\* Intel HEX line ":BBAAAATTDD...DDCC".
IH_ByteCount(line) == ParseByte(line, 2)

IH_Address(line) == 256 * ParseByte(line, 4) + ParseByte(line, 6)

IH_Type(line) == ParseByte(line, 8)

IH_PayloadLen(line) == (Len(line) - 11) \div 2

IH_Payload(line) == [k \in 1..IH_PayloadLen(line) |-> ParseByte(line, 8 + 2 * k)]

IH_Checksum(line) == ParseByte(line, Len(line) - 1)

\* Byte count, address, type and payload bytes: all but ":" and the checksum.
IH_Body(line) == [k \in 1..((Len(line) - 3) \div 2) |-> ParseByte(line, 2 * k)]

IsData(line) == IH_Type(line) = 0

IsEof(line) == IH_Type(line) = 1

IsExt(line) == IH_Type(line) = 4

\* S-Record line "StBBAA..AADD...DDCC".
SR_Type(line) == CHOOSE t \in 0..9 : DecDigits[t + 1] = line[2]

\* Address bytes of each record type (Motorola S-Record format).
SR_AddrLen(line) ==
    CASE SR_Type(line) \in {2, 8} -> 3
      [] SR_Type(line) \in {3, 7} -> 4
      [] OTHER -> 2

SR_ByteCount(line) == ParseByte(line, 3)

SR_AddressField(line) == [k \in 1..SR_AddrLen(line) |-> ParseByte(line, 3 + 2 * k)]

SR_PayloadLen(line) == (Len(line) - 6 - 2 * SR_AddrLen(line)) \div 2

SR_Payload(line) ==
    [k \in 1..SR_PayloadLen(line) |->
        ParseByte(line, 3 + 2 * SR_AddrLen(line) + 2 * k)]

SR_Checksum(line) == ParseByte(line, Len(line) - 1)

\* Byte count, address and payload bytes: all but "St" and the checksum.
SR_Body(line) == [k \in 1..((Len(line) - 4) \div 2) |-> ParseByte(line, 1 + 2 * k)]

SR_IsData(line) == SR_Type(line) \in {1, 2, 3}

SR_IsEnd(line) == SR_Type(line) \in {7, 8, 9}

IsHex == conv = "IntelHexConverter"

IsSRec == conv = "SRecordConverter"

\* The call is at its return statement and returns true.
Succeeded == pc = "return" /\ result = "true"

\* Payload bytes of the Intel data records among the first n lines.
RECURSIVE IH_BytesIn(_, _)
IH_BytesIn(lines, n) ==
    IF n = 0 THEN 0
    ELSE IH_BytesIn(lines, n - 1)
         + (IF IsData(lines[n]) THEN IH_PayloadLen(lines[n]) ELSE 0)

\* Payload bytes of the S-Record data records among the first n lines.
RECURSIVE SR_BytesIn(_, _)
SR_BytesIn(lines, n) ==
    IF n = 0 THEN 0
    ELSE SR_BytesIn(lines, n - 1)
         + (IF SR_IsData(lines[n]) THEN SR_PayloadLen(lines[n]) ELSE 0)

\* Upper 16 address bits in force at line i: the payload of the most recent
\* extended linear address record before it, 0 when there is none.
IH_UpperAt(lines, i) ==
    LET before == {j \in 1..(i - 1) : IsExt(lines[j])}
    IN  IF before = {} THEN 0
        ELSE LET j == CHOOSE x \in before : \A y \in before : y <= x
             IN  256 * IH_Payload(lines[j])[1] + IH_Payload(lines[j])[2]

(***************************************************************************)
(* C1: no Intel HEX data record with a payload crosses a 64 KiB page: the  *)
(* 16-bit address of the record plus its payload length is at most 0x10000.*)
(***************************************************************************)
C1_NoPageCrossing ==
    IsHex =>
        \A i \in 1..Len(out) :
            (IsData(out[i]) /\ IH_PayloadLen(out[i]) >= 1)
                => IH_Address(out[i]) + IH_PayloadLen(out[i]) <= 65536

\* A data record cut short at the page boundary, with data left to write.
C1_Witness ==
    /\ IsHex /\ pc = "hex_loop"
    /\ data_offset < Len(binary_data)
    /\ out # <<>>
    /\ LET last == out[Len(out)]
       IN  /\ IsData(last)
           /\ IH_Address(last) + IH_PayloadLen(last) = 65536
           /\ IH_PayloadLen(last) < bytes_per_line_

(***************************************************************************)
(* C2: Intel HEX round trip. With extended addressing and a line width in  *)
(* 1..255, placing each data record's payload at (latest extended linear   *)
(* address << 16) | (16-bit address field) rebuilds the buffer at          *)
(* start_address, start_address + 1, ... (mod 2^32), each byte once and in *)
(* order, and each byte-count field equals the payload length.             *)
(***************************************************************************)
C2_RoundTrip ==
    (IsHex /\ Succeeded /\ use_extended_address /\ bytes_per_line_ \in 1..255) =>
        /\ IH_BytesIn(out, Len(out)) = Len(binary_data)
        /\ \A i \in 1..Len(out) :
              IsData(out[i]) =>
                LET line == out[i]
                    off == IH_BytesIn(out, i - 1)
                    base == U32(IH_UpperAt(out, i), IH_Address(line))
                IN  /\ IH_ByteCount(line) = IH_PayloadLen(line)
                    /\ off + IH_PayloadLen(line) <= Len(binary_data)
                    /\ \A k \in 1..IH_PayloadLen(line) :
                          /\ IH_Payload(line)[k] = binary_data[off + k]
                          /\ AddU32(base, k - 1) = AddU32(start_address, off + k - 1)

\* A finished run whose data lies in two pages with a non-zero upper half.
C2_Witness ==
    /\ IsHex /\ Succeeded /\ use_extended_address /\ bytes_per_line_ \in 1..255
    /\ Len(binary_data) >= 2
    /\ Cardinality({i \in 1..Len(out) : IsExt(out[i])}) = 2
    /\ \E i \in 1..Len(out) : IsData(out[i]) /\ IH_UpperAt(out, i) > 0

(***************************************************************************)
(* C3: in every S-Record data and end record the address field is the      *)
(* record's address, most significant byte first, in 2, 3 or 4 bytes; the  *)
(* address of a data record is start_address plus the payload bytes        *)
(* written before it, that of the end record is start_address.             *)
(***************************************************************************)
\* The low n bytes of a, most significant first.
BigEndian(a, n) == [k \in 1..n |-> ByteOf(a, n - k)]

\* C3: the address field of every data and end record is big-endian.
C3_AddressBigEndian ==
    IsSRec =>
        \A i \in 1..Len(out) :
            LET line == out[i]
            IN  /\ SR_IsData(line) =>
                     SR_AddressField(line)
                       = BigEndian(AddU32(start_address, SR_BytesIn(out, i - 1)),
                                   SR_AddrLen(line))
                /\ SR_IsEnd(line) =>
                     SR_AddressField(line)
                       = BigEndian(start_address, SR_AddrLen(line))

(***************************************************************************)
(* C4: the checksum written on every emitted line is the one recomputed    *)
(* from the line: Intel HEX, the two's complement mod 256 of the sum of    *)
(* byte count, address bytes, type and payload; S-Record, the one's        *)
(* complement of the low byte of the sum of byte count, address bytes and  *)
(* payload.                                                                *)
(***************************************************************************)
C4_ChecksumMatches ==
    \A i \in 1..Len(out) :
        LET line == out[i]
        IN  /\ IsHex =>
                 /\ IH_Checksum(line) = (256 - (SumBytes(IH_Body(line)) % 256)) % 256
                 /\ (SumBytes(IH_Body(line)) + IH_Checksum(line)) % 256 = 0
            /\ IsSRec =>
                 /\ SR_Checksum(line) = 255 - (SumBytes(SR_Body(line)) % 256)
                 /\ (SumBytes(SR_Body(line)) + SR_Checksum(line)) % 256 = 255

\* A finished S-Record run with a header, a data record with payload, the
\* count record and the end record, each with a non-trivial checksum.
C4_Witness ==
    /\ IsSRec /\ Succeeded
    /\ Len(out) >= 4
    /\ SR_Type(out[1]) = 0
    /\ SR_IsData(out[2]) /\ SR_PayloadLen(out[2]) >= 2
    /\ SR_Type(out[Len(out) - 1]) = 5
    /\ SR_IsEnd(out[Len(out)])
    /\ \A i \in 1..Len(out) : SR_Checksum(out[i]) \notin {0, 255}

(***************************************************************************)
(* C5: on every S-Record line the byte-count field equals the number of    *)
(* address bytes plus the number of payload bytes on the line plus 1.      *)
(***************************************************************************)
C5_ByteCountExact ==
    IsSRec =>
        \A i \in 1..Len(out) :
            SR_ByteCount(out[i])
              = SR_AddrLen(out[i]) + SR_PayloadLen(out[i]) + 1

EofLine == <<":", "0", "0", "0", "0", "0", "0", "0", "1", "F", "F">>

\* C7: the output of a successful run on an empty buffer.
C7_EmptyBuffer ==
    (Succeeded /\ binary_data = <<>>) =>
        /\ IsHex => out = <<EofLine>>
        /\ IsSRec =>
              LET n == Len(out)
              IN  /\ n = (IF header # <<>> THEN 3 ELSE 2)
                  /\ header # <<>> => SR_Type(out[1]) = 0
                  /\ SR_Type(out[n - 1]) = 5
                  /\ SR_Payload(out[n - 1]) = <<0, 0>>
                  /\ SR_IsEnd(out[n])
                  /\ \A i \in 1..n : ~SR_IsData(out[i])

\* A finished S-Record run on an empty buffer with a header text.
C7_Witness ==
    /\ IsSRec /\ Succeeded
    /\ binary_data = <<>>
    /\ header # <<>>
    /\ start_address # U32(0, 0)

\* A finished Intel HEX run on an empty buffer with extended addressing.
C7_WitnessHex ==
    /\ IsHex /\ Succeeded
    /\ binary_data = <<>>
    /\ use_extended_address
    /\ start_address # U32(0, 0)

(***************************************************************************)
(* C8: the 32-byte buffer at 0x0000FFF0, line width in 1..255.             *)
(* As stated: with extended addressing the output holds exactly one        *)
(* extended linear address record, without it none.                        *)
(* As amended: with extended addressing it holds exactly two, one for      *)
(* page 0x0000 as the first line and one for page 0x0001 immediately       *)
(* before the first data record of the next page; without it none.         *)
(***************************************************************************)
Straddle ==
    /\ binary_data = Buffer32
    /\ start_address = U32(0, 65520)
    /\ bytes_per_line_ \in 1..255

ExtLines == {i \in 1..Len(out) : IsExt(out[i])}

\* C8 as stated: one extended linear address record when enabled, else none.
C8_OneExtendedRecord ==
    (IsHex /\ Succeeded /\ Straddle) =>
        Cardinality(ExtLines) = (IF use_extended_address THEN 1 ELSE 0)

\* C8 as amended: two extended linear address records when enabled, for
\* pages 0x0000 and 0x0001, each before the first data record of its page.
C8_TwoExtendedRecords ==
    (IsHex /\ Succeeded /\ Straddle) =>
        IF use_extended_address
        THEN /\ Cardinality(ExtLines) = 2
             /\ IsExt(out[1])
             /\ IH_Payload(out[1]) = <<0, 0>>
             /\ \E j \in ExtLines :
                   /\ j > 1
                   /\ IH_Payload(out[j]) = <<0, 1>>
                   /\ IH_BytesIn(out, j) = 16
                   /\ IsData(out[j + 1])
                   /\ IH_Address(out[j + 1]) = 0
        ELSE ExtLines = {}

\* The finished run on that buffer with extended addressing, one byte a line.
C8_Witness ==
    /\ IsHex /\ Succeeded /\ Straddle
    /\ use_extended_address
    /\ bytes_per_line_ = 1

(***************************************************************************)
(* C9: buffer 01 02 03 04 at address 0 with 4 bytes per line.              *)
(* As stated: the output is ":0400000001020304F6" then ":00000001FF".      *)
(* As amended: the data line is ":0400000001020304F2" (the bytes sum to    *)
(* 0x0E, whose two's complement is 0xF2); it is followed by ":00000001FF"  *)
(* and, with extended addressing enabled, preceded by ":020000040000FA".   *)
(***************************************************************************)
Scenario4 ==
    /\ binary_data = Buffer4
    /\ start_address = U32(0, 0)
    /\ bytes_per_line_ = 4

DataLine4_F6 == <<":", "0", "4", "0", "0", "0", "0", "0", "0",
                  "0", "1", "0", "2", "0", "3", "0", "4", "F", "6">>

DataLine4_F2 == <<":", "0", "4", "0", "0", "0", "0", "0", "0",
                  "0", "1", "0", "2", "0", "3", "0", "4", "F", "2">>

ExtLine0 == <<":", "0", "2", "0", "0", "0", "0", "0", "4",
              "0", "0", "0", "0", "F", "A">>

\* C9 as stated: the data line with checksum F6, then the end-of-file line.
C9_TwoLines ==
    (IsHex /\ Succeeded /\ Scenario4) => out = <<DataLine4_F6, EofLine>>

\* C9 as amended: the data line with checksum F2, then the end-of-file line,
\* after the page 0x0000 record when extended addressing is enabled.
C9_WithExtendedLine ==
    (IsHex /\ Succeeded /\ Scenario4) =>
        out = IF use_extended_address
                 THEN <<ExtLine0, DataLine4_F2, EofLine>>
                 ELSE <<DataLine4_F2, EofLine>>

\* The finished run of the scenario with extended addressing disabled.
C9_Witness ==
    /\ IsHex /\ Succeeded /\ Scenario4
    /\ ~use_extended_address

(***************************************************************************)
(* C10: records are written in the order header, data, count, end.         *)
(* S-Record: an S0 record is the first line, S0, S5 and the end record     *)
(* occur at most once, no data record follows the S5 record, and a         *)
(* successful run ends with the end record. Intel HEX: an end-of-file      *)
(* record is the last line, and a successful run ends with it.             *)
(***************************************************************************)
\* Place of an S-Record line in the order header, data, count, end.
SR_Rank(line) ==
    CASE SR_Type(line) = 0 -> 0
      [] SR_IsData(line) -> 1
      [] SR_Type(line) = 5 -> 2
      [] SR_IsEnd(line) -> 3
      [] OTHER -> 4

\* C10: lines are written in the order header, data, count, end.
C10_EmissionOrder ==
    /\ IsSRec =>
          /\ \A i \in 1..Len(out) :
                /\ SR_Rank(out[i]) < 4
                /\ SR_Type(out[i]) = 0 => (i = 1 /\ header # <<>>)
                /\ SR_IsEnd(out[i]) => (i = Len(out) /\ pc = "return")
          /\ \A i, j \in 1..Len(out) :
                i < j => /\ SR_Rank(out[i]) <= SR_Rank(out[j])
                         /\ SR_Rank(out[i]) = SR_Rank(out[j]) => SR_Rank(out[i]) = 1
          /\ Succeeded =>
                /\ out # <<>>
                /\ SR_Type(out[Len(out)]) = get_end_record_type(address_size)
                /\ header # <<>> => SR_Type(out[1]) = 0
    /\ IsHex =>
          /\ \A i \in 1..Len(out) :
                /\ IH_Type(out[i]) \in {0, 1, 4}
                /\ IsEof(out[i]) => (i = Len(out) /\ pc = "return")
          /\ Succeeded => (out # <<>> /\ IsEof(out[Len(out)]))

\* A finished S-Record run with header, several data records, count and end.
C10_Witness ==
    /\ IsSRec /\ Succeeded
    /\ Len(out) >= 5
    /\ SR_Type(out[1]) = 0
    /\ SR_IsData(out[2]) /\ SR_IsData(out[3])
    /\ SR_Type(out[Len(out) - 1]) = 5
    /\ SR_IsEnd(out[Len(out)])

(***************************************************************************)
(* C11: last_error_ is overwritten at the start of each run: a call that   *)
(* returns true does not leave the message of an earlier failed call in    *)
(* last_error_.                                                            *)
(***************************************************************************)
C11_NoStaleError ==
    result = "true" => last_error_ = ""

(***************************************************************************)
(* C12: the line width an encoding run uses lies in 1..255 (Intel HEX) or  *)
(* 1..252 (S-Record), whether the constructor or set_bytes_per_line        *)
(* supplied it, and the payload length of every data record lies in the    *)
(* same range and does not exceed the line width.                          *)
(***************************************************************************)
C12_LineWidthClamped ==
    pc # "idle" =>
        /\ IsHex =>
              /\ bytes_per_line_ \in 1..255
              /\ \A i \in 1..Len(out) :
                    IsData(out[i]) =>
                        /\ IH_PayloadLen(out[i]) \in 1..255
                        /\ IH_PayloadLen(out[i]) <= bytes_per_line_
        /\ IsSRec =>
              /\ bytes_per_line_ \in 1..252
              /\ \A i \in 1..Len(out) :
                    SR_IsData(out[i]) =>
                        /\ SR_PayloadLen(out[i]) \in 1..252
                        /\ SR_PayloadLen(out[i]) <= bytes_per_line_

(***************************************************************************)
(* C13: every encoding run terminates, for every line width a caller can   *)
(* configure, because each loop iteration strictly increases the byte      *)
(* offset (which the buffer size bounds): a step that stays in the loop    *)
(* leaves data_offset larger than it was.                                  *)
(***************************************************************************)
C13_LoopProgress ==
    [][(pc \in {"hex_loop", "srec_loop"} /\ pc' = pc)
          => data_offset' > data_offset]_vars

(***************************************************************************)
(* C14: cursor invariant of both data loops: data_offset never exceeds the *)
(* buffer length, it is the sum of the payload lengths of the data records *)
(* written so far, and current_address is start_address + data_offset      *)
(* modulo 2^32, also when the address wraps past 0xFFFFFFFF.               *)
(***************************************************************************)
\* The payload bytes written so far, as parsed from the output.
PayloadWritten ==
    IF IsHex THEN IH_BytesIn(out, Len(out)) ELSE SR_BytesIn(out, Len(out))

CursorOK ==
    (pc \in {"hex_loop", "srec_loop"} \/ Succeeded) =>
        LET total == start_address.lo + data_offset
        IN  /\ data_offset <= Len(binary_data)
            /\ data_offset = PayloadWritten
            /\ current_address.lo = total % 65536
            /\ current_address.hi = (start_address.hi + (total \div 65536)) % 65536

\* A step that stays in the loop writes one data record, as the last line,
\* and moves data_offset forward by the payload length of that record.
CursorStep ==
    (pc \in {"hex_loop", "srec_loop"} /\ pc' = pc) =>
        LET line == out'[Len(out')]
            n == IF IsHex THEN IH_PayloadLen(line) ELSE SR_PayloadLen(line)
        IN  /\ Len(out') > Len(out)
            /\ IF IsHex THEN IsData(line) ELSE SR_IsData(line)
            /\ data_offset' = data_offset + n
            /\ data_offset' >= data_offset

\* C14: the cursor invariant holds in every state of a run and every loop
\* iteration advances the cursor by the payload length it wrote.
C14_CursorInvariant == []CursorOK /\ [][CursorStep]_vars

\* In the loop after a record, with the address wrapped past 0xFFFFFFFF.
C14_Witness ==
    /\ pc \in {"hex_loop", "srec_loop"}
    /\ start_address = U32(65535, 65535)
    /\ data_offset >= 2
    /\ data_offset < Len(binary_data)
    /\ current_address.hi = 0

(***************************************************************************)
(* C15: an S5 count record is written if and only if the number of data    *)
(* records is at most 0xFFFF; its two payload bytes are that number, high  *)
(* byte first, the number is that of the S1/S2/S3 lines written before it, *)
(* and its address field carries the same two bytes.                       *)
(***************************************************************************)
\* The two bytes of a count, high byte first.
CountBytes(n) == <<(n \div 256) % 256, n % 256>>

C15_CountRecord ==
    /\ (IsSRec /\ Succeeded) =>
          LET n == Len(out)
              s5 == {i \in 1..n : SR_Type(out[i]) = 5}
              data == {i \in 1..n : SR_IsData(out[i])}
          IN  /\ record_count = Cardinality(data)
              /\ (s5 # {}) <=> (Cardinality(data) <= 65535)
              /\ \A i \in s5 :
                    /\ s5 = {i}
                    /\ \A j \in data : j < i
                    /\ SR_Payload(out[i]) = CountBytes(Cardinality(data))
                    /\ SR_AddressField(out[i]) = CountBytes(Cardinality(data))
    /\ pc = "srec_after_count" =>
          /\ (out # <<>>) <=> (record_count <= 65535)
          /\ out # <<>> =>
                /\ Len(out) = 1
                /\ SR_Type(out[1]) = 5
                /\ SR_Payload(out[1]) = CountBytes(record_count)
                /\ SR_AddressField(out[1]) = CountBytes(record_count)

\* A finished run with several data records and their count record.
C15_Witness ==
    /\ IsSRec /\ Succeeded
    /\ Len(out) >= 5
    /\ SR_Type(out[Len(out) - 1]) = 5
    /\ SR_Payload(out[Len(out) - 1])[2] >= 3

\* The count step on 0x10000 data records: no count record.
C15_WitnessNoCount ==
    /\ pc = "srec_after_count"
    /\ record_count = 65536
    /\ out = <<>>

====
